---------------------------- MODULE Spec2Model ----------------------------
(***************************************************************************)
(* A model of the IT-sector stock pipeline: six scripts run one at a time, *)
(* coupled only through files on disk.                                     *)
(*                                                                         *)
(*   01_data_collection.py          writes one raw CSV per company         *)
(*   02_balance_and_splits_check.py reads the raw CSVs, writes the         *)
(*                                  balanced table and the split report    *)
(*   03_full_period_stats.py        \                                      *)
(*   04_quarterly_stats.py           > read the balanced CSV               *)
(*   05_correlations.py             /                                      *)
(*   06_plots.py                    reads the quarterly workbook of 04     *)
(*                                                                         *)
(* Time is counted in half-hour ticks since 1970-01-01 00:00, so that the  *)
(* +05:30 offset of the exchange is a whole number of ticks.               *)
(***************************************************************************)
EXTENDS Integers, Sequences, FiniteSets, TLC

VARIABLES
    raw,        \* 1_data/raw: company -> the raw CSV (or absent)
    processed,  \* 1_data/processed: the balanced CSV/XLSX and the split report
    outputs,    \* 3_outputs: the set of files present there
    run,        \* the last stage run: its outcome and its I/O, in order
    call        \* the last call of a pure helper: function, argument, result

vars == <<raw, processed, outputs, run, call>>

-----------------------------------------------------------------------------
(* Bounds of the model *)

\* rows per raw file
MaxRows == 2
\* columns per raw file (read_raw_close specification)
MaxCols == 2

\* the longest series handed to safe_mode
MaxLen == 4

\* the most company columns of a balanced table handed to 04 and 06
MaxCompanies == 3

-----------------------------------------------------------------------------
(* Generic helpers *)

Range(s) == {s[i] : i \in 1..Len(s)}

Min2(a, b) == IF a <= b THEN a ELSE b

\* sequences over S of length at most n
SeqsUpTo(S, n) == UNION {[1..k -> S] : k \in 0..n}

-----------------------------------------------------------------------------
(* Calendar: pandas Timestamps as ticks *)

\* days since 1970-01-01 of a proleptic Gregorian date (y >= 1)
DaysFromCivil(y, m, d) ==
    LET yy  == IF m <= 2 THEN y - 1 ELSE y
        era == yy \div 400
        yoe == yy - era * 400
        mp  == IF m > 2 THEN m - 3 ELSE m + 9
        doy == (153 * mp + 2) \div 5 + d - 1
        doe == yoe * 365 + yoe \div 4 - yoe \div 100 + doy
    IN  era * 146097 + doe - 719468

\* pd.Timestamp("YYYY-MM-DD"): midnight of that day
Timestamp(y, m, d) == DaysFromCivil(y, m, d) * 48

\* the dict TICKERS, in insertion order: company name, exchange symbol
TICKERS == << <<"HCL", "HCLTECH.NS">>, <<"Infosys", "INFY.NS">>,
              <<"TCS", "TCS.NS">>, <<"Wipro", "WIPRO.NS">> >>

\* TICKERS.keys(), in order
Names == [i \in 1..Len(TICKERS) |-> TICKERS[i][1]]

CompanySet == Range(Names)

START_DATE == Timestamp(2023, 1, 3)

END_DATE_INCLUSIVE == Timestamp(2024, 6, 28)

\* the offset of Asia/Kolkata, +05:30, in ticks
IST == 5 * 2 + 1

-----------------------------------------------------------------------------
(* Cells of a CSV file *)

\* a timestamp without offset, e.g. "2023-01-03"
Naive(w) == [kind |-> "naive", wall |-> w, off |-> 0, val |-> 0]

\* a timestamp with offset, e.g. "2023-01-03 00:00:00+05:30"
Aware(w, o) == [kind |-> "aware", wall |-> w, off |-> o, val |-> 0]

\* a number, e.g. "1041.5"
Num(v) == [kind |-> "num", wall |-> 0, off |-> 0, val |-> v]

\* anything else, e.g. "Ticker" or "n/a"
Text == [kind |-> "text", wall |-> 0, off |-> 0, val |-> 0]

NaT == [nat |-> TRUE, t |-> 0]

NaN == [nan |-> TRUE, v |-> 0]

\* pd.to_datetime(cell, errors="coerce", utc=True): a naive stamp is taken as
\* UTC, an aware one is converted to UTC, a number is nanoseconds after the
\* epoch (inside tick 0 for any price), anything else is NaT
to_datetime_utc(cell) ==
    CASE cell.kind = "naive" -> [nat |-> FALSE, t |-> cell.wall]
      [] cell.kind = "aware" -> [nat |-> FALSE, t |-> cell.wall - cell.off]
      [] cell.kind = "num"   -> [nat |-> FALSE, t |-> 0]
      [] OTHER               -> NaT

\* Series.dt.tz_convert(None) on a UTC-aware column: the UTC wall clock, naive
tz_convert_None(t) == t

\* pd.to_numeric(cell, errors="coerce")
to_numeric(cell) ==
    IF cell.kind = "num" THEN [nan |-> FALSE, v |-> cell.val] ELSE NaN

\* a strip that converts the instant to UTC before it drops the offset
strip_tz_converting(cell) == cell.wall - cell.off

\* _strip_tz on an index stamp: tz_localize(None) keeps the wall clock and
\* drops the offset; a naive index is returned as it is
strip_tz(cell) == cell.wall

-----------------------------------------------------------------------------
(* Raw files *)

NoFile == [exists |-> FALSE, cols |-> <<>>, rows |-> <<>>]

File(cols, rows) == [exists |-> TRUE, cols |-> cols, rows |-> rows]

RawPath(c) == c \o "_raw.csv"

DATE_CANDIDATES == <<"Date", "date", "Datetime", "datetime", "index">>

CLOSE_CANDIDATES == <<"Close", "close", "Adj Close", "AdjClose", "adj_close">>

\* for c in cands: if c in columns: return c  -- "" when the loop ends
RECURSIVE FirstPresent(_, _)
FirstPresent(cands, cols) ==
    IF cands = <<>> THEN ""
    ELSE IF Head(cands) \in Range(cols) THEN Head(cands)
    ELSE FirstPresent(Tail(cands), cols)

locate_date_col(cols) ==
    LET c == FirstPresent(DATE_CANDIDATES, cols)
    IN  IF c = "" THEN cols[1] ELSE c

\* a lookup that prefers the lower-case header
locate_close_col_lowercase_first(cols) ==
    FirstPresent(<<"close", "Close", "Adj Close", "AdjClose", "adj_close">>, cols)

locate_close_col(cols) == FirstPresent(CLOSE_CANDIDATES, cols)

\* the position of a column name (read_csv keeps header names distinct)
ColPos(cols, name) == CHOOSE i \in 1..Len(cols) : cols[i] = name

\* insert a row into a sequence sorted by Date, after its equals
RECURSIVE InsertByDate(_, _)
InsertByDate(r, s) ==
    IF s = <<>> THEN <<r>>
    ELSE IF r.Date < Head(s).Date THEN <<r>> \o s
    ELSE <<Head(s)>> \o InsertByDate(r, Tail(s))

\* DataFrame.sort_values("Date"): ascending, ties in file order
RECURSIVE sort_values_Date(_)
sort_values_Date(s) ==
    IF s = <<>> THEN <<>>
    ELSE InsertByDate(s[Len(s)], sort_values_Date(SubSeq(s, 1, Len(s) - 1)))

\* SelectSeq with a two-step pipeline: parse, then keep
RECURSIVE ParseDates(_, _, _)
ParseDates(rows, dpos, cpos) ==
    IF rows = <<>> THEN <<>>
    ELSE LET d == to_datetime_utc(Head(rows)[dpos])
             rest == ParseDates(Tail(rows), dpos, cpos)
         IN  IF d.nat THEN rest      \* dropna(subset=["Date"])
             ELSE <<[Date |-> tz_convert_None(d.t), cell |-> Head(rows)[cpos]]>>
                  \o rest

RECURSIVE ParseCloses(_)
ParseCloses(rows) ==
    IF rows = <<>> THEN <<>>
    ELSE LET v == to_numeric(Head(rows).cell)
             rest == ParseCloses(Tail(rows))
         IN  IF v.nan THEN rest      \* dropna(subset=["Close"])
             ELSE <<[Date |-> Head(rows).Date, Close |-> v.v]>> \o rest

\* read_raw_close(company_name): the Series (rows of Date, Close) or the error
read_raw_close(c, f) ==
    IF ~f.exists THEN
        [err |-> "FileNotFoundError", advice |-> "01_data_collection.py",
         columns |-> <<>>, date_col |-> "", close_col |-> "", series |-> <<>>]
    ELSE
        LET date_col  == locate_date_col(f.cols)
            close_col == locate_close_col(f.cols)
        IN  IF close_col = "" THEN
                [err |-> "ValueError", advice |-> "",
                 columns |-> f.cols, date_col |-> date_col, close_col |-> "",
                 series |-> <<>>]
            ELSE
                [err |-> "", advice |-> "", columns |-> <<>>,
                 date_col |-> date_col, close_col |-> close_col,
                 series |-> ParseCloses(sort_values_Date(
                     ParseDates(f.rows, ColPos(f.cols, date_col),
                                ColPos(f.cols, close_col))))]

-----------------------------------------------------------------------------
(* 02: balancing *)

Index(s) == [i \in 1..Len(s) |-> s[i].Date]

Count(idx, d) == Cardinality({i \in 1..Len(idx) : idx[i] = d})

HasDup(idx) == \E i, j \in 1..Len(idx) : i < j /\ idx[i] = idx[j]

RECURSIVE SortedSeq(_)
SortedSeq(S) ==
    IF S = {} THEN <<>>
    ELSE LET m == CHOOSE x \in S : \A y \in S : x <= y
         IN  <<m>> \o SortedSeq(S \ {m})

RECURSIVE Repeat(_, _)
Repeat(x, n) == IF n = 0 THEN <<>> ELSE <<x>> \o Repeat(x, n - 1)

RECURSIVE Flatten(_)
Flatten(ss) == IF ss = <<>> THEN <<>> ELSE Head(ss) \o Flatten(Tail(ss))

MaxOf(S) == CHOOSE x \in S : \A y \in S : y <= x

\* the union of the four indexes: every date, as often as the series that
\* repeats it most
CombinedIndex(series) ==
    LET dates == UNION {Range(Index(series[c])) : c \in CompanySet}
        ds    == SortedSeq(dates)
    IN  Flatten([i \in 1..Len(ds) |->
            Repeat(ds[i], MaxOf({Count(Index(series[c]), ds[i]) : c \in CompanySet}))])

\* the k-th row of series s (k counted among the rows of date d)
NthAt(s, d, k) ==
    LET at == SelectSeq(s, LAMBDA r : r.Date = d)
    IN  IF at = <<>> THEN NaN
        ELSE [nan |-> FALSE, v |-> at[Min2(k, Len(at))].Close]

\* pd.concat([...], axis=1): the outer join of the four Series on their index.
\* A Series whose index differs from the combined one is reindexed, which
\* pandas refuses for an index with duplicates; a Series that needs no
\* reindexing keeps its duplicates.  Which of the two a given pandas does when
\* duplicates are present is left open: both outcomes are possible then.
concat_frame(series, idx) ==
    [i \in 1..Len(idx) |->
        [Date |-> idx[i],
         vals |-> [c \in CompanySet |->
            NthAt(series[c], idx[i],
                  Cardinality({j \in 1..i : idx[j] = idx[i]}))]]]

concat_outcomes(series) ==
    LET idx == CHOOSE x \in {CombinedIndex(series)} : TRUE
        dup == \E c \in CompanySet : HasDup(Index(series[c]))
        fits == \A c \in CompanySet :
                   HasDup(Index(series[c])) => Index(series[c]) = idx
    IN  (IF dup THEN {[err |-> "InvalidIndexError", frame |-> <<>>]} ELSE {})
        \cup (IF fits THEN {[err |-> "", frame |-> concat_frame(series, idx)]}
              ELSE {})

\* a window whose end is exclusive
in_window_end_exclusive(t) == START_DATE <= t /\ t < END_DATE_INCLUSIVE

\* close_df.loc[(index >= start) & (index <= end)]
in_window(t) == START_DATE <= t /\ t <= END_DATE_INCLUSIVE

restrict_window(frame) == SelectSeq(frame, LAMBDA r : in_window(r.Date))

\* close_df.dropna(how="any")
dropna_any(frame) ==
    SelectSeq(frame, LAMBDA r : \A c \in CompanySet : ~r.vals[c].nan)

\* balanced.isna().any().any()
isna_any(frame) ==
    \E i \in 1..Len(frame) : \E c \in CompanySet : frame[i].vals[c].nan

\* a check that never sees a duplicate
index_duplicated_never(frame) == FALSE

\* balanced.index.duplicated().any()
index_duplicated(frame) == HasDup(Index(frame))

\* balanced.sort_index(): ascending by Date, ties in order
sort_index(frame) == sort_values_Date(frame)

NoTable == [exists |-> FALSE, rows |-> <<>>]

\* a table appended to the one already on disk
Table_appended(frame) ==
    [exists |-> TRUE,
     rows |-> processed.csv.rows \o
              [i \in 1..Len(frame) |->
                 [Date |-> frame[i].Date,
                  vals |-> [c \in CompanySet |-> frame[i].vals[c].v]]]]

\* the table as written: a Date column and one column per company
Table(frame) ==
    [exists |-> TRUE,
     rows |-> [i \in 1..Len(frame) |->
                 [Date |-> frame[i].Date,
                  vals |-> [c \in CompanySet |-> frame[i].vals[c].v]]]]

\* steps 1-3 of main, given what concat returned: the error or the table
balance(cc) ==
    IF cc.err # "" THEN [err |-> cc.err, table |-> NoTable]
    ELSE LET balanced == dropna_any(restrict_window(cc.frame))
         IN  IF balanced = <<>> THEN
                 [err |-> "RuntimeError: empty", table |-> NoTable]
             ELSE IF isna_any(balanced) THEN
                 [err |-> "RuntimeError: missing values", table |-> NoTable]
             ELSE IF index_duplicated(balanced) THEN
                 [err |-> "RuntimeError: duplicates", table |-> NoTable]
             ELSE [err |-> "", table |-> Table(sort_index(balanced))]

-----------------------------------------------------------------------------
(* 02: the split check *)

\* one split event of the source: its index stamp and its ratio
Split(cell, ratio) == [date |-> cell, ratio |-> ratio]

RECURSIVE check_splits_from(_, _)
check_splits_from(i, source) ==
    IF i > Len(TICKERS) THEN <<>>
    ELSE LET name   == TICKERS[i][1]
             splits == source[name]
             inwin  == SelectSeq(splits, LAMBDA e : in_window(strip_tz(e.date)))
         IN  [k \in 1..Len(inwin) |->
                [Company |-> name, Ticker |-> TICKERS[i][2],
                 SplitDate |-> strip_tz(inwin[k].date) \div 48,
                 SplitRatio |-> inwin[k].ratio]]
             \o check_splits_from(i + 1, source)

\* check_splits(): the rows of the report, tickers in TICKERS order
check_splits(source) == check_splits_from(1, source)

NoReport == [exists |-> FALSE, rows |-> <<>>]

-----------------------------------------------------------------------------
(* The record of a stage run *)

NoSource == [c \in CompanySet |-> <<>>]

NoRun == [stage |-> "", outcome |-> "", advice |-> "", columns |-> <<>>,
          io |-> <<>>, missing |-> {}, source |-> NoSource]

NoCall == [fn |-> "", arg |-> "", ret |-> ""]

Read(file) == [op |-> "read", file |-> file]

Fetch(symbol) == [op |-> "fetch", file |-> symbol]

Write(file) == [op |-> "write", file |-> file]

\* the files a run wrote
Written(r) == {r.io[i].file : i \in {j \in 1..Len(r.io) : r.io[j].op = "write"}}

Failed(stage, outcome, advice, columns, io, missing) ==
    [stage |-> stage, outcome |-> outcome, advice |-> advice,
     columns |-> columns, io |-> io, missing |-> missing, source |-> NoSource]

Succeeded(stage, io, source) ==
    [stage |-> stage, outcome |-> "ok", advice |-> "", columns |-> <<>>,
     io |-> io, missing |-> {}, source |-> source]

BALANCED_CSV == "it_sector_balanced_close_2023_2024.csv"

BALANCED_XLSX == "it_sector_balanced_close_2023_2024.xlsx"

SPLITS_CSV == "stock_split_events_in_window.csv"

-----------------------------------------------------------------------------
(* 02_balance_and_splits_check.py *)

\* the first company, in TICKERS order, whose raw file cannot be read; 0 if none
FirstUnreadable(reads) ==
    LET bad == {i \in 1..Len(Names) : reads[i].err # ""}
    IN  IF bad = {} THEN 0 ELSE CHOOSE i \in bad : \A j \in bad : i <= j

\* the tail of main(), from the balanced frame on: the split check, the writes
save02(b, source, reads_io, missing) ==
    IF b.err # "" THEN
        /\ run' = Failed("02", b.err, "", <<>>, reads_io, missing)
        /\ UNCHANGED <<raw, processed, outputs, call>>
    ELSE
        \E splits_table \in {check_splits(source)} :
            /\ processed' =
                  [csv |-> b.table, xlsx |-> b.table,
                   splits |-> IF splits_table # <<>>
                              THEN [exists |-> TRUE, rows |-> splits_table]
                              ELSE processed.splits]
            /\ run' = Succeeded("02",
                  reads_io \o [i \in 1..Len(TICKERS) |-> Fetch(TICKERS[i][2])]
                  \o <<Write(BALANCED_CSV), Write(BALANCED_XLSX)>>
                  \o (IF splits_table # <<>> THEN <<Write(SPLITS_CSV)>> ELSE <<>>),
                  source)
            /\ UNCHANGED <<raw, outputs, call>>

\* main() of 02, for the split histories the source returns
main02(source) ==
    \E reads \in {[i \in 1..Len(Names) |-> read_raw_close(Names[i], raw[Names[i]])]} :
    \E k \in {FirstUnreadable(reads)} :
        LET missing == {RawPath(c) : c \in {d \in CompanySet : ~raw[d].exists}}
            readsTo(n) == [i \in 1..n |-> Read(RawPath(Names[i]))]
        IN  IF k # 0 THEN
                \* the list comprehension stops at the first read that raises
                /\ run' = Failed("02", reads[k].err, reads[k].advice,
                                 reads[k].columns,
                                 readsTo(IF raw[Names[k]].exists THEN k ELSE k - 1),
                                 missing)
                /\ UNCHANGED <<raw, processed, outputs, call>>
            ELSE
                \E cc \in concat_outcomes([c \in CompanySet |->
                            reads[CHOOSE i \in 1..Len(Names) : Names[i] = c].series]) :
                \E b \in {balance(cc)} :
                    save02(b, source, readsTo(Len(Names)), missing)

-----------------------------------------------------------------------------
(* 04, 05, 06: quarter labels *)

\* the year and month of a day number (DatetimeIndex.year, .month)
CivilFromDays(days) ==
    LET z   == days + 719468
        era == z \div 146097
        doe == z - era * 146097
        yoe == (doe - doe \div 1460 + doe \div 36524 - doe \div 146096) \div 365
        doy == doe - (365 * yoe + yoe \div 4 - yoe \div 100)
        mp  == (5 * doy + 2) \div 153
        m   == IF mp < 10 THEN mp + 3 ELSE mp - 9
    IN  [year |-> yoe + era * 400 + (IF m <= 2 THEN 1 ELSE 0), month |-> m]

Year(t) == CivilFromDays(t \div 48).year

Month(t) == CivilFromDays(t \div 48).month

Digits == <<"0", "1", "2", "3", "4", "5", "6", "7", "8", "9">>

\* str(n) for n >= 0, as a sequence of characters
RECURSIVE Str(_)
Str(n) ==
    IF n < 10 THEN <<Digits[n + 1]>>
    ELSE Str(n \div 10) \o <<Digits[(n % 10) + 1]>>

\* int(chars) for a non-empty sequence of digits; -1 stands for ValueError
RECURSIVE IntOf(_)
IntOf(chars) ==
    IF chars = <<>> \/ \E i \in 1..Len(chars) : chars[i] \notin Range(Digits)
    THEN -1
    ELSE LET last == CHOOSE k \in 1..10 : Digits[k] = chars[Len(chars)]
         IN  IF Len(chars) = 1 THEN last - 1
             ELSE IntOf(SubSeq(chars, 1, Len(chars) - 1)) * 10 + last - 1

\* chars.split(sep): the pieces between the separators
RECURSIVE Split_(_, _, _)
Split_(chars, sep, piece) ==
    IF chars = <<>> THEN <<piece>>
    ELSE IF Head(chars) = sep THEN <<piece>> \o Split_(Tail(chars), sep, <<>>)
    ELSE Split_(Tail(chars), sep, Append(piece, Head(chars)))

\* chars.replace(ch, "")
Remove(chars, ch) == SelectSeq(chars, LAMBDA x : x # ch)

\* the characters as one string
RECURSIVE Join(_)
Join(chars) == IF chars = <<>> THEN "" ELSE Head(chars) \o Join(Tail(chars))

\* a bucket number taken from the month without the shift by one
quarter_number_unshifted(m) == (m \div 4) + 1

\* qnum = ((m - 1) // 4) + 1
quarter_number(m) == ((m - 1) \div 4) + 1

\* 04 make_4month_quarters: the label f"{y}_Q{qn}" of every date of the index
make_4month_quarters(index) ==
    [i \in 1..Len(index) |->
        Str(Year(index[i])) \o <<"_", "Q">> \o Str(quarter_number(Month(index[i])))]

\* 05 make_4month_quarters: its own copy of the same function
make_4month_quarters_05(index) ==
    [i \in 1..Len(index) |->
        Str(Year(index[i])) \o <<"_", "Q">>
        \o Str(((Month(index[i]) - 1) \div 4) + 1)]

\* 06 _quarter_sort_key: (int(year_str), qnum), or ValueError
quarter_sort_key(q) ==
    LET parts == Split_(q, "_", <<>>)
    IN  IF Len(parts) # 2 THEN <<-1, -1>>
        ELSE <<IntOf(parts[1]), IntOf(Remove(parts[2], "Q"))>>

\* df["Quarter"].unique(): the labels in order of first appearance
RECURSIVE Unique(_)
Unique(s) ==
    IF s = <<>> THEN <<>>
    ELSE LET u == Unique(SubSeq(s, 1, Len(s) - 1))
         IN  IF s[Len(s)] \in Range(u) THEN u ELSE Append(u, s[Len(s)])

-----------------------------------------------------------------------------
(* 03, 04: the Mode statistic *)

\* Series.mode(dropna=True): the values that occur most often, NaN left out
mode(s) ==
    LET vals == {s[i].v : i \in {j \in 1..Len(s) : ~s[j].nan}}
        n(v) == Cardinality({i \in 1..Len(s) : ~s[i].nan /\ s[i].v = v})
    IN  {v \in vals : \A w \in vals : n(w) <= n(v)}

\* a mode that pandas would leave empty when no value repeats
safe_mode_repeated_only(s) ==
    LET m == {v \in mode(s) :
                Cardinality({i \in 1..Len(s) : ~s[i].nan /\ s[i].v = v}) > 1}
    IN  IF m = {} THEN NaN
        ELSE [nan |-> FALSE, v |-> CHOOSE x \in m : \A y \in m : x <= y]

\* 03 safe_mode: NaN if mode() is empty, else float(m.min())
safe_mode(s) ==
    LET m == mode(s)
    IN  IF Cardinality(m) = 0 THEN NaN
        ELSE [nan |-> FALSE, v |-> CHOOSE x \in m : \A y \in m : x <= y]

\* 04 safe_mode: its own copy of the same function
safe_mode_04(s) ==
    LET m == mode(s)
    IN  IF Cardinality(m) = 0 THEN NaN
        ELSE [nan |-> FALSE, v |-> CHOOSE x \in m : \A y \in m : x <= y]

-----------------------------------------------------------------------------
(* 01_data_collection.py *)

\* what yf.download returns for one ticker, after reset_index: no rows, or a
\* frame with its column names and its rows (Date, Close)
NoData == [empty |-> TRUE, cols |-> {}, rows |-> <<>>]

Frame(cols, rows) == [empty |-> FALSE, cols |-> cols, rows |-> rows]

\* out.sort_values("Date") on the downloaded frame: by instant
sort_frame(rows) ==
    LET keyed == [i \in 1..Len(rows) |->
                    [Date |-> to_datetime_utc(rows[i][1]).t, row |-> rows[i]]]
        sorted == sort_values_Date(keyed)
    IN  [i \in 1..Len(sorted) |-> sorted[i].row]

\* the body of the loop for one download: the error, or "" and the file
collect(r) ==
    IF r.empty THEN [err |-> "RuntimeError: no data", file |-> NoFile]
    ELSE IF "Date" \notin r.cols /\ "index" \notin r.cols THEN
        [err |-> "RuntimeError: no Date column", file |-> NoFile]
    ELSE IF "Close" \notin r.cols THEN
        [err |-> "RuntimeError: no Close column", file |-> NoFile]
    ELSE [err |-> "", file |-> File(<<"Date", "Close">>, sort_frame(r.rows))]

\* the I/O of the loop up to and including company n, all of them saved
RECURSIVE loop_io(_)
loop_io(n) ==
    IF n = 0 THEN <<>>
    ELSE loop_io(n - 1) \o <<Fetch(TICKERS[n][2]), Write(RawPath(Names[n]))>>

\* a collector that downloads every ticker before it saves any file
main01_fetch_all_first(results) ==
    LET outs == [i \in 1..Len(results) |-> collect(results[i])]
        k    == Len(results)
        fetched == [i \in 1..k |-> Fetch(TICKERS[i][2])]
    IN  IF outs[k].err # "" THEN
            /\ run' = Failed("01", outs[k].err, "", <<>>, fetched, {})
            /\ UNCHANGED <<raw, processed, outputs, call>>
        ELSE
            /\ raw' = [c \in CompanySet |->
                         outs[CHOOSE i \in 1..k : Names[i] = c].file]
            /\ run' = Succeeded("01",
                          fetched \o [i \in 1..k |-> Write(RawPath(Names[i]))],
                          NoSource)
            /\ UNCHANGED <<processed, outputs, call>>

\* main() of 01, for the downloads the source returns: one per ticker, in
\* TICKERS order, up to the first that makes the loop raise
main01(results) ==
    LET outs == [i \in 1..Len(results) |-> collect(results[i])]
        k    == Len(results)
        saved == IF outs[k].err # "" THEN k - 1 ELSE k
    IN  /\ raw' = [c \in CompanySet |->
                     LET i == CHOOSE j \in 1..Len(Names) : Names[j] = c
                     IN  IF i <= saved THEN outs[i].file ELSE raw[c]]
        /\ run' = IF outs[k].err # ""
                  THEN Failed("01", outs[k].err, "", <<>>,
                              loop_io(k - 1) \o <<Fetch(TICKERS[k][2])>>, {})
                  ELSE Succeeded("01", loop_io(k), NoSource)
        /\ UNCHANGED <<processed, outputs, call>>

-----------------------------------------------------------------------------
(* 03, 04, 05, 06 *)

FULL_STATS_CSV == "full_period_statistics.csv"

FULL_STATS_XLSX == "full_period_statistics.xlsx"

QUARTERLY_CSV == "quarterly_statistics_4month.csv"

QUARTERLY_XLSX == "quarterly_statistics_4month.xlsx"

CORRELATION_XLSX == "correlation_matrices.xlsx"

\* a stage that reads `input` and, having it, writes `writes`
stage_run(stage, present, input, advice, writes) ==
    IF ~present THEN
        /\ run' = Failed(stage, "FileNotFoundError", advice, <<>>, <<>>, {input})
        /\ UNCHANGED <<raw, processed, outputs, call>>
    ELSE
        /\ outputs' = outputs \cup Range(writes)
        /\ run' = Succeeded(stage,
                     <<Read(input)>> \o [i \in 1..Len(writes) |-> Write(writes[i])],
                     NoSource)
        /\ UNCHANGED <<raw, processed, call>>

\* main() of 03: the statistics table, then one scatter plot per company
main03 ==
    stage_run("03", processed.csv.exists, BALANCED_CSV,
              "02_balance_and_splits_check.py",
              <<FULL_STATS_CSV, FULL_STATS_XLSX>>
              \o [i \in 1..Len(Names) |-> Names[i] \o "_scatter_full_period.png"])

\* the quarters of the balanced table, in order of first appearance
quarters_of(table) ==
    LET inwin == SelectSeq(table.rows, LAMBDA r : in_window(r.Date))
    IN  Unique(make_4month_quarters([i \in 1..Len(inwin) |-> inwin[i].Date]))

\* main() of 04: per quarter one scatter plot per company, then the table
main04 ==
    LET qs == quarters_of(processed.csv)
    IN  stage_run("04", processed.csv.exists, BALANCED_CSV, "02",
              Flatten([k \in 1..Len(qs) |->
                  [i \in 1..Len(Names) |->
                      Names[i] \o "_" \o Join(qs[k]) \o "_scatter.png"]])
              \o <<QUARTERLY_CSV, QUARTERLY_XLSX>>)

\* a main() of 05 without its existence check: read_csv raises by itself
main05_unchecked ==
    stage_run("05", processed.csv.exists, BALANCED_CSV, "", <<CORRELATION_XLSX>>)

\* main() of 05: the workbook of correlation matrices
main05 ==
    stage_run("05", processed.csv.exists, BALANCED_CSV, "02", <<CORRELATION_XLSX>>)

\* main() of 06: the two pivots, then the two charts
main06 ==
    stage_run("06", QUARTERLY_XLSX \in outputs, QUARTERLY_XLSX,
              "04_quarterly_stats.py",
              <<"mean_by_quarter_pivot.xlsx", "sd_by_quarter_pivot.xlsx",
                "avg_price_by_quarter.png", "sd_by_quarter.png">>)

-----------------------------------------------------------------------------
(* 04, 06: the quarterly statistics table and its pivots *)

\* the elements of a set, ascending under a strict total order
SortSet(S, less(_, _)) ==
    [k \in 1..Cardinality(S) |->
        CHOOSE x \in S : Cardinality({y \in S : less(y, x)}) = k - 1]

\* the characters of a quarter label, in code point order
LabelChars == <<"0", "1", "2", "3", "4", "5", "6", "7", "8", "9", "Q", "_">>

CharRank(ch) == CHOOSE k \in 1..Len(LabelChars) : LabelChars[k] = ch

\* Python's < on two labels: the first differing character decides, a proper
\* prefix comes first
StrLess(a, b) ==
    \E k \in 1..Len(b) :
        /\ k <= Len(a) + 1
        /\ \A i \in 1..k - 1 : a[i] = b[i]
        /\ k = Len(a) + 1 \/ CharRank(a[k]) < CharRank(b[k])

\* company names, in the ascending order of Python's < on strings
CompanyNames == <<"Accenture", "HCL", "Infosys", "Mphasis", "TCS", "Wipro", "Zensar">>

NameLess(a, b) ==
    (CHOOSE i \in 1..Len(CompanyNames) : CompanyNames[i] = a)
        < (CHOOSE i \in 1..Len(CompanyNames) : CompanyNames[i] = b)

RECURSIVE SumSeq(_)
SumSeq(s) == IF s = <<>> THEN 0 ELSE Head(s) + SumSeq(Tail(s))

Isqrt(n) == CHOOSE r \in 0..n : r * r <= n /\ (r + 1) * (r + 1) > n

\* s.mean(), to whole rupees
mean(s) == [nan |-> FALSE, v |-> SumSeq(s) \div Len(s)]

\* s.std(ddof=1), to whole rupees: NaN for a single observation
sd(s) ==
    IF Len(s) < 2 THEN NaN
    ELSE LET m == SumSeq(s) \div Len(s)
             ss == SumSeq([i \in 1..Len(s) |-> (s[i] - m) * (s[i] - m)])
         IN  [nan |-> FALSE, v |-> Isqrt(ss \div (Len(s) - 1))]

\* sort_values(["Quarter", "Company"])
RowLess(a, b) ==
    \/ StrLess(a.Quarter, b.Quarter)
    \/ a.Quarter = b.Quarter /\ NameLess(a.Company, b.Company)

\* main() of 04, the table: one row per quarter and company column of the
\* balanced table inside the window, sorted by quarter and company; an empty
\* frame has no column to sort by
quarterly_table(table) ==
    LET byDate == SortSet(Range(table.rows), LAMBDA a, b : a.Date < b.Date)
        df     == SelectSeq(byDate, LAMBDA r : in_window(r.Date))
        labels == make_4month_quarters([i \in 1..Len(df) |-> df[i].Date])
        qs     == Unique(labels)
        of(q)  == SelectSeq([i \in 1..Len(df) |-> i], LAMBDA i : labels[i] = q)
        all_rows ==
            Flatten([k \in 1..Len(qs) |->
                [j \in 1..Len(table.cols) |->
                    LET ix == of(qs[k])
                        col == [i \in 1..Len(ix) |-> df[ix[i]].vals[table.cols[j]]]
                    IN  [Quarter |-> qs[k], Company |-> table.cols[j],
                         Mean |-> mean(col), SD |-> sd(col)]]])
    IN  IF all_rows = <<>> THEN [err |-> "KeyError", rows |-> <<>>]
        ELSE [err |-> "", rows |-> SortSet(Range(all_rows), RowLess)]

COMPANY_ORDER == <<"HCL", "Infosys", "TCS", "Wipro">>

NoPivot == [index |-> <<>>, columns |-> <<>>, cells |-> <<>>]

\* df.pivot(index="Quarter", columns="Company", values=...): both axes sorted,
\* NaN where a pair has no row
pivot(rows, values) ==
    LET qset == {rows[i].Quarter : i \in 1..Len(rows)}
        cset == {rows[i].Company : i \in 1..Len(rows)}
    IN  [index |-> SortSet(qset, StrLess),
         columns |-> SortSet(cset, NameLess),
         cells |-> [q \in qset |-> [c \in cset |->
                      IF \E i \in 1..Len(rows) : rows[i].Quarter = q /\ rows[i].Company = c
                      THEN (CHOOSE r \in Range(rows) : r.Quarter = q /\ r.Company = c)[values]
                      ELSE NaN]]]

\* sorted(..., key=_quarter_sort_key) on distinct labels with distinct keys
KeyLess(a, b) ==
    LET ka == quarter_sort_key(a)
        kb == quarter_sort_key(b)
    IN  ka[1] < kb[1] \/ (ka[1] = kb[1] /\ ka[2] < kb[2])

\* the pivot columns left in the order pivot gives them
company_order_unenforced(columns) == columns

\* the companies of COMPANY_ORDER that are columns, then the other columns
company_order(columns) ==
    SelectSeq(COMPANY_ORDER, LAMBDA c : c \in Range(columns))
    \o SelectSeq(columns, LAMBDA c : c \notin Range(COMPANY_ORDER))

\* main() of 06, the pivots: ValueError for a label that does not parse or a
\* (Quarter, Company) pair with two rows
pivots(rows) ==
    LET labels == Unique([i \in 1..Len(rows) |-> rows[i].Quarter])
        bad == \/ \E i \in 1..Len(labels) : -1 \in Range(quarter_sort_key(labels[i]))
               \/ \E i, j \in 1..Len(rows) :
                     i < j /\ rows[i].Quarter = rows[j].Quarter
                           /\ rows[i].Company = rows[j].Company
    IN  IF bad THEN [err |-> "ValueError", mean_pivot |-> NoPivot, sd_pivot |-> NoPivot]
        ELSE LET quarters == SortSet(Range(labels), KeyLess)
                 mp == [pivot(rows, "Mean") EXCEPT !.index = quarters]
                 sp == [pivot(rows, "SD") EXCEPT !.index = quarters]
             IN  [err |-> "",
                  mean_pivot |-> [mp EXCEPT !.columns = company_order(mp.columns)],
                  sd_pivot |-> [sp EXCEPT !.columns = company_order(sp.columns)]]

-----------------------------------------------------------------------------
(* Calls of read_raw_close on one raw file *)

ReadRaw(c) ==
    /\ call' = [fn |-> "read_raw_close", arg |-> c, ret |-> read_raw_close(c, raw[c])]
    /\ UNCHANGED <<raw, processed, outputs, run>>

NoProcessed == [csv |-> NoTable, xlsx |-> NoTable, splits |-> NoReport]

ColumnNames == Range(DATE_CANDIDATES) \cup Range(CLOSE_CANDIDATES) \cup {"Volume"}

\* headers as read_csv returns them: at least one column, names distinct
Headers ==
    {h \in SeqsUpTo(ColumnNames, MaxCols) :
        Len(h) >= 1 /\ \A i, j \in 1..Len(h) : i # j => h[i] # h[j]}

ReadCells == {Naive(START_DATE), Aware(START_DATE, IST), Num(100), Text}

ReadFiles ==
    UNION {{File(h, rows) : rows \in SeqsUpTo([1..Len(h) -> ReadCells], 1)} :
           h \in Headers}

InitRead ==
    /\ \E f \in ReadFiles :
          raw = [c \in CompanySet |-> IF c = Names[1] THEN f ELSE NoFile]
    /\ processed = NoProcessed
    /\ outputs = {}
    /\ run = NoRun
    /\ call = NoCall

NextRead == \E c \in CompanySet : ReadRaw(c)

SpecRead == InitRead /\ [][NextRead]_vars

-----------------------------------------------------------------------------
(* The pipeline, from empty directories (Spec) *)

Stage01(runs) == \E results \in runs : main01(results)

Stage02(sources) == \E source \in sources : main02(source)

Stage03 == main03

Stage04 == main04

Stage05 == main05

Stage06 == main06

\* a raw file that reaches 1_data/raw by another road than the Collector
PlaceRaw(c, f) ==
    /\ raw' = [raw EXCEPT ![c] = f]
    /\ UNCHANGED <<processed, outputs, run, call>>

TwoDays(stamp(_)) ==
    << <<stamp(START_DATE), Num(100)>>, <<stamp(END_DATE_INCLUSIVE), Num(101)>> >>

\* the downloads of one ticker: nothing; daily rows under Date or under index;
\* a frame without a date column; a frame without Close
FetchResults ==
    {NoData,
     Frame({"Date", "Close", "Volume"}, TwoDays(Naive)),
     Frame({"index", "Close"}, TwoDays(Naive)),
     Frame({"Datetime", "Close"}, TwoDays(Naive)),
     Frame({"Date", "Adj Close"}, TwoDays(Naive))}

\* the downloads of one run: every one but the last lets the loop go on
FetchRuns ==
    {rs \in SeqsUpTo(FetchResults, Len(TICKERS)) :
        /\ Len(rs) >= 1
        /\ \A i \in 1..Len(rs) - 1 : collect(rs[i]).err = ""
        /\ Len(rs) < Len(TICKERS) => collect(rs[Len(rs)]).err # ""}

\* a file without a close-like column
PlacedFiles == {File(<<"Date", "Price">>, <<>>)}

\* the split histories of one run: none, or one event of HCL inside the window
PipeSources ==
    {NoSource,
     [NoSource EXCEPT !["HCL"] = <<Split(Aware(START_DATE, IST), 2)>>]}

Init ==
    /\ raw = [c \in CompanySet |-> NoFile]
    /\ processed = NoProcessed
    /\ outputs = {}
    /\ run = NoRun
    /\ call = NoCall

Next ==
    \/ Stage01(FetchRuns)
    \/ \E c \in CompanySet : \E f \in PlacedFiles : PlaceRaw(c, f)
    \/ Stage02(PipeSources)
    \/ Stage03
    \/ Stage04
    \/ Stage05
    \/ Stage06

Spec == Init /\ [][Next]_vars

-----------------------------------------------------------------------------
(* Properties of the stages' runs (Spec) *)

Downstream == {"02", "03", "04", "05", "06"}

Fatal == run.stage # "" /\ run.outcome # "ok"

\* no read and no fetch follows a write
ReadsBeforeWrites(io) ==
    \A i, j \in 1..Len(io) : (i < j /\ io[i].op = "write") => io[j].op = "write"

AdvisedStage(advice) ==
    CASE advice = "01_data_collection.py" -> "01"
      [] advice = "02_balance_and_splits_check.py" -> "02"
      [] advice = "02" -> "02"
      [] advice = "04_quarterly_stats.py" -> "04"
      [] OTHER -> ""

\* the stage that writes the input of a stage
Producer(stage) ==
    CASE stage = "02" -> "01"
      [] stage \in {"03", "04", "05"} -> "02"
      [] OTHER -> "04"

MissingFileError ==
    /\ run.outcome = "FileNotFoundError"
    /\ AdvisedStage(run.advice) = Producer(run.stage)

OutputsOf06 ==
    {"mean_by_quarter_pivot.xlsx", "sd_by_quarter_pivot.xlsx",
     "avg_price_by_quarter.png", "sd_by_quarter.png"}

\* an output exists only if the input of its stage existed when it ran
OutputsHadInputs ==
    /\ (run.stage \in Downstream /\ Written(run) # {}) => run.missing = {}
    /\ processed.csv.exists => \A c \in CompanySet : raw[c].exists
    /\ outputs \ OutputsOf06 # {} => processed.csv.exists
    /\ outputs \cap OutputsOf06 # {} => "quarterly_statistics_4month.xlsx" \in outputs

\* the position of a raw file in TICKERS order
RawPos(file) == CHOOSE i \in 1..Len(TICKERS) : RawPath(TICKERS[i][1]) = file

\* 02 raised the missing-column error for a raw file that comes, in TICKERS
\* order, before every missing one
EarlierFileUnreadable ==
    /\ run.stage = "02"
    /\ run.outcome = "ValueError"
    /\ run.io # <<>>
    /\ \A i \in 1..Len(CLOSE_CANDIDATES) : CLOSE_CANDIDATES[i] \notin Range(run.columns)
    /\ \A m \in run.missing : RawPos(run.io[Len(run.io)].file) < RawPos(m)

\* C4 (as stated): a stage of 02..06 run without a required input file ends
\* with the missing-file error naming the prior stage and writes nothing; and
\* an output exists only if its stage's inputs existed when the stage ran.
C4_MissingInputIsMissingFileError ==
    /\ (run.stage \in Downstream /\ run.missing # {}) =>
          MissingFileError /\ Written(run) = {}
    /\ OutputsHadInputs

\* C4 (as amended): a stage of 02..06 run without a required input file ends
\* with a fatal error and writes nothing; the error is the missing-file error
\* naming the prior stage, unless 02 first reads, in TICKERS order, a raw file
\* without a close-like column, whose missing-column error it raises instead;
\* and an output exists only if its stage's inputs existed when the stage ran.
C4_MissingInputIsFatal ==
    /\ (run.stage \in Downstream /\ run.missing # {}) =>
          /\ Fatal
          /\ Written(run) = {}
          /\ MissingFileError \/ EarlierFileUnreadable
          /\ MissingFileError =>
                (run.stage = "02" =>
                    \A i \in 1..Len(run.io) : \A m \in run.missing :
                        RawPos(run.io[i].file) < RawPos(m))
    /\ OutputsHadInputs

\* 02 ran with a raw file missing and raised the missing-column error of an
\* earlier file
C4_Witness ==
    /\ run.stage = "02"
    /\ run.missing # {}
    /\ EarlierFileUnreadable

-----------------------------------------------------------------------------
(* Properties of read_raw_close (SpecRead) *)

\* the positions of the candidates that are among the headers
Present(cands, cols) == {i \in 1..Len(cands) : cands[i] \in Range(cols)}

Least(S) == CHOOSE i \in S : \A j \in S : i <= j

ReadDone == call.fn = "read_raw_close" /\ raw[call.arg].exists

\* the first three parts of C10, which hold as stated
ColumnLookupRule ==
    LET cols == raw[call.arg].cols
        ret  == call.ret
        dp   == Present(DATE_CANDIDATES, cols)
        cp   == Present(CLOSE_CANDIDATES, cols)
    IN  /\ ret.date_col = IF dp # {} THEN DATE_CANDIDATES[Least(dp)] ELSE cols[1]
        /\ (cp = {}) <=> (ret.err = "ValueError")
        /\ cp = {} => ret.columns = cols
        /\ cp # {} => ret.err = "" /\ ret.close_col = CLOSE_CANDIDATES[Least(cp)]

\* C10 (as amended): the date column is the first present name of the
\* priority list, or the first column when none is present; the close column
\* is the first present close candidate; the read fails with the
\* missing-column error, reporting the columns, exactly when no close
\* candidate is present; and the date column is the close column exactly
\* when no date candidate is present and the first column is the chosen
\* close column.
C10_ColumnLookup ==
    ReadDone =>
        /\ ColumnLookupRule
        /\ call.ret.err = "" =>
              ((call.ret.date_col = call.ret.close_col)
               <=> /\ Present(DATE_CANDIDATES, raw[call.arg].cols) = {}
                   /\ raw[call.arg].cols[1] = call.ret.close_col)

\* C10 (as stated): ... and the date column is never the close column.
C10_DateColumnNeverCloseColumn ==
    ReadDone =>
        /\ ColumnLookupRule
        /\ call.ret.err = "" => call.ret.date_col # call.ret.close_col

\* a read that fell back to the first column, which is the close column
C10_Witness ==
    /\ ReadDone
    /\ call.ret.err = ""
    /\ Present(DATE_CANDIDATES, raw[call.arg].cols) = {}
    /\ call.ret.date_col = call.ret.close_col
    /\ Len(raw[call.arg].cols) = 2

\* C9 (as stated): every raw timestamp with wall clock w and any offset is
\* kept, by a successful read, as the naive index value w; so a row stamped
\* START_DATE 00:00 at +05:30 is inside the study window.
C9_OffsetDroppedWallClockKept ==
    (ReadDone /\ call.ret.err = "") =>
        LET f    == raw[call.arg]
            dpos == ColPos(f.cols, call.ret.date_col)
            cpos == ColPos(f.cols, call.ret.close_col)
        IN  \A i \in 1..Len(f.rows) :
                (f.rows[i][dpos].kind \in {"naive", "aware"}
                 /\ f.rows[i][cpos].kind = "num")
                => \E j \in 1..Len(call.ret.series) :
                       /\ call.ret.series[j].Date = f.rows[i][dpos].wall
                       /\ (f.rows[i][dpos].wall = START_DATE
                            => in_window(call.ret.series[j].Date))

-----------------------------------------------------------------------------
(* Runs of the Balancer over arbitrary raw files (SpecBalance) *)

\* the rows a raw file is made of, in ascending order of their instant:
\* START_DATE at +05:30 (an instant before the window); START_DATE;
\* START_DATE with a non-numeric close; END_DATE_INCLUSIVE
BalanceRows ==
    << <<Aware(START_DATE, IST), Num(100)>>,
       <<Naive(START_DATE), Num(100)>>,
       <<Naive(START_DATE), Text>>,
       <<Naive(END_DATE_INCLUSIVE), Num(101)>> >>

\* raw files as the Collector leaves them: columns Date, Close, rows ascending
BalanceFiles ==
    {File(<<"Date", "Close">>, [i \in 1..Len(p) |-> BalanceRows[p[i]]]) :
        p \in {q \in SeqsUpTo(1..Len(BalanceRows), MaxRows) :
                  \A i \in 1..Len(q) - 1 : q[i] <= q[i + 1]}}

InitBalance ==
    /\ raw \in [CompanySet -> BalanceFiles]
    /\ processed = NoProcessed
    /\ outputs = {}
    /\ run = NoRun
    /\ call = NoCall

NextBalance == Stage02({NoSource})

SpecBalance == InitBalance /\ [][NextBalance]_vars

-----------------------------------------------------------------------------
(* Properties of the balanced table (SpecBalance) *)

BalanceOk == run.stage = "02" /\ run.outcome = "ok"

\* the rows of company c's raw file with a parseable date and a numeric close
ValidRows(c) ==
    {i \in 1..Len(raw[c].rows) :
        /\ ~to_datetime_utc(raw[c].rows[i][ColPos(raw[c].cols, "Date")]).nat
        /\ ~to_numeric(raw[c].rows[i][ColPos(raw[c].cols, "Close")]).nan}

DateOfRow(c, i) == to_datetime_utc(raw[c].rows[i][ColPos(raw[c].cols, "Date")]).t

CloseOfRow(c, i) == to_numeric(raw[c].rows[i][ColPos(raw[c].cols, "Close")]).v

\* the dates inside the closed window at which company c has a valid row
WindowDates(c) ==
    {d \in {DateOfRow(c, i) : i \in ValidRows(c)} :
        START_DATE <= d /\ d <= END_DATE_INCLUSIVE}

TableDates == {processed.csv.rows[i].Date : i \in 1..Len(processed.csv.rows)}

\* C1: when the Balancer succeeds, the dates of the balanced table are exactly
\* the dates, inside [START_DATE, END_DATE_INCLUSIVE], at which every one of
\* the four companies has a row with a parseable date and a numeric close;
\* and every retained date carries, for every company, a close of that
\* company's raw file at that date.
C1_BalancedIsIntersection ==
    BalanceOk =>
        /\ processed.csv.exists
        /\ TableDates =
              {d \in UNION {WindowDates(c) : c \in CompanySet} :
                  \A c \in CompanySet : d \in WindowDates(c)}
        /\ \A i \in 1..Len(processed.csv.rows) : \A c \in CompanySet :
              \E k \in ValidRows(c) :
                  /\ DateOfRow(c, k) = processed.csv.rows[i].Date
                  /\ CloseOfRow(c, k) = processed.csv.rows[i].vals[c]

\* a success in which a date that some companies have inside the window is
\* dropped because another company lacks it, and another date is kept
C1_Witness ==
    /\ BalanceOk
    /\ TableDates # {}
    /\ \E c \in CompanySet : \E d \in WindowDates(c) : d \notin TableDates
    /\ \E c \in CompanySet : \E i \in 1..Len(raw[c].rows) : i \notin ValidRows(c)

RECURSIVE MinRawRows(_)
MinRawRows(S) ==
    LET c == CHOOSE x \in S : TRUE
    IN  IF S \ {c} = {} THEN Len(raw[c].rows)
        ELSE Min2(Len(raw[c].rows), MinRawRows(S \ {c}))

\* C2: whenever the Balancer writes a balanced table, every date of it lies in
\* [START_DATE, END_DATE_INCLUSIVE] and it has at most as many rows as the
\* shortest of the four raw files.
C2_WindowAndSize ==
    BalanceOk =>
        /\ \A d \in TableDates : START_DATE <= d /\ d <= END_DATE_INCLUSIVE
        /\ Len(processed.csv.rows) <= MinRawRows(CompanySet)

\* a table as long as the shortest raw file, written from a directory in
\* which some file has a row whose instant is outside the window
C2_Witness ==
    /\ BalanceOk
    /\ Len(processed.csv.rows) = MinRawRows(CompanySet)
    /\ \E c \in CompanySet : \E i \in ValidRows(c) :
          ~(START_DATE <= DateOfRow(c, i) /\ DateOfRow(c, i) <= END_DATE_INCLUSIVE)

-----------------------------------------------------------------------------
(* Runs of the Balancer under varying split histories (SpecSplits) *)

SplitFiles ==
    {File(<<"Date", "Close">>, [i \in 1..Len(p) |-> BalanceRows[p[i]]]) :
        p \in {<<2, 4>>, <<2>>, <<1, 4>>}}

\* split events: midnight of START_DATE at +05:30, inside the window by its
\* wall clock; END_DATE_INCLUSIVE; and, outside the window, the day before
\* START_DATE, 00:30 of END_DATE_INCLUSIVE and the day after it
SplitSources ==
    {NoSource,
     [NoSource EXCEPT !["HCL"] = <<Split(Aware(START_DATE, IST), 2)>>],
     [NoSource EXCEPT !["Infosys"] = <<Split(Naive(END_DATE_INCLUSIVE + 48), 5)>>],
     [NoSource EXCEPT !["TCS"] = <<Split(Aware(START_DATE - 48, IST), 3),
                                   Split(Naive(END_DATE_INCLUSIVE), 2)>>,
                      !["Wipro"] = <<Split(Aware(START_DATE, IST), 3),
                                     Split(Aware(END_DATE_INCLUSIVE + 1, IST), 4)>>]}

InitSplits ==
    /\ raw \in [CompanySet -> SplitFiles]
    /\ processed = NoProcessed
    /\ outputs = {}
    /\ run = NoRun
    /\ call = NoCall

NextSplits == Stage02(SplitSources)

SpecSplits == InitSplits /\ [][NextSplits]_vars

-----------------------------------------------------------------------------
(* Properties of the split check and of re-runs (SpecSplits) *)

\* C6: of two successive successful runs of the Balancer over the same raw
\* files, the second leaves the balanced table (CSV and XLSX) as the first
\* wrote it, whatever the split source returns in either run and whatever
\* the first run left on disk.
C6_RerunIdempotent ==
    [][(BalanceOk /\ BalanceOk') =>
          (processed'.csv = processed.csv /\ processed'.xlsx = processed.xlsx)]_vars

\* a successful run without in-window splits, over the table and the report
\* that an earlier successful run left
C6_Witness ==
    /\ BalanceOk
    /\ run.source = NoSource
    /\ processed.splits.exists
    /\ Len(processed.csv.rows) = 2

\* the events of the run's histories whose date is inside the closed window
EventsInWindow ==
    {[Company |-> TICKERS[i][1], Ticker |-> TICKERS[i][2],
      SplitDate |-> e.date.wall \div 48, SplitRatio |-> e.ratio] :
        <<i, e>> \in {x \in (1..Len(TICKERS)) \X
                              UNION {Range(run.source[c]) : c \in CompanySet} :
                      /\ x[2] \in Range(run.source[TICKERS[x[1]][1]])
                      /\ START_DATE <= x[2].date.wall
                      /\ x[2].date.wall <= END_DATE_INCLUSIVE}}

\* C8: the split check is informational: after a successful run the balanced
\* table carries the closes of the raw files, whatever the split histories;
\* the events reported are exactly those whose date d has
\* START_DATE <= d <= END_DATE_INCLUSIVE; and the report file is written in
\* the run if and only if there is such an event.
C8_SplitCheckInformational ==
    BalanceOk =>
        /\ \A i \in 1..Len(processed.csv.rows) : \A c \in CompanySet :
              \E k \in ValidRows(c) :
                  /\ DateOfRow(c, k) = processed.csv.rows[i].Date
                  /\ CloseOfRow(c, k) = processed.csv.rows[i].vals[c]
        /\ processed.xlsx = processed.csv
        /\ (SPLITS_CSV \in Written(run)) <=> (EventsInWindow # {})
        /\ SPLITS_CSV \in Written(run) =>
              /\ Range(processed.splits.rows) = EventsInWindow
              /\ Len(processed.splits.rows) = Cardinality(EventsInWindow)

\* a successful run whose histories hold events inside and outside the window
C8_Witness ==
    /\ BalanceOk
    /\ SPLITS_CSV \in Written(run)
    /\ \E c \in CompanySet : \E e \in Range(run.source[c]) :
          ~(START_DATE <= e.date.wall /\ e.date.wall <= END_DATE_INCLUSIVE)
    /\ \E c \in CompanySet : \E e \in Range(run.source[c]) :
          e.date.off # 0 /\ START_DATE <= e.date.wall /\ e.date.wall - e.date.off < START_DATE

-----------------------------------------------------------------------------
(* Quarter labels of one date of the balanced table (SpecQuarter) *)

QuarterYears == {1999, 2023, 2024}

QuarterDays == {1, 15, 28}

Quarters04 ==
    /\ call.fn = ""
    /\ LET index == [i \in 1..Len(processed.csv.rows) |-> processed.csv.rows[i].Date]
       IN  call' = [fn |-> "make_4month_quarters_04", arg |-> index,
                    ret |-> make_4month_quarters(index)]
    /\ UNCHANGED <<raw, processed, outputs, run>>

Quarters05 ==
    /\ call.fn = ""
    /\ LET index == [i \in 1..Len(processed.csv.rows) |-> processed.csv.rows[i].Date]
       IN  call' = [fn |-> "make_4month_quarters_05", arg |-> index,
                    ret |-> make_4month_quarters_05(index)]
    /\ UNCHANGED <<raw, processed, outputs, run>>

\* 06 sorts the labels that 04 wrote
QuarterSortKey ==
    /\ call.fn = "make_4month_quarters_04"
    /\ call' = [fn |-> "_quarter_sort_key", arg |-> call.ret[1],
                ret |-> quarter_sort_key(call.ret[1])]
    /\ UNCHANGED <<raw, processed, outputs, run>>

InitQuarter ==
    /\ raw = [c \in CompanySet |-> NoFile]
    /\ \E y \in QuarterYears, m \in 1..12, d \in QuarterDays :
          processed =
              [NoProcessed EXCEPT
                 !.csv = [exists |-> TRUE,
                          rows |-> <<[Date |-> Timestamp(y, m, d),
                                      vals |-> [c \in CompanySet |-> 100]]>>]]
    /\ outputs = {}
    /\ run = NoRun
    /\ call = NoCall

NextQuarter == Quarters04 \/ Quarters05 \/ QuarterSortKey

SpecQuarter == InitQuarter /\ [][NextQuarter]_vars

\* C5: every date gets the one label YYYY_Qn with n = ((month - 1) div 4) + 1
\* and n in {1, 2, 3}; the copies of make_4month_quarters in 04 and 05 give
\* the same label; and _quarter_sort_key of the label returns (year, n).
C5_QuarterLabelRoundTrip ==
    \A y \in QuarterYears, m \in 1..12, d \in QuarterDays :
        Timestamp(y, m, d) = processed.csv.rows[1].Date =>
            LET n == ((m - 1) \div 4) + 1
                label == <<Digits[(y \div 1000) + 1], Digits[((y \div 100) % 10) + 1],
                           Digits[((y \div 10) % 10) + 1], Digits[(y % 10) + 1],
                           "_", "Q", Digits[n + 1]>>
            IN  /\ n \in {1, 2, 3}
                /\ call.fn \in {"make_4month_quarters_04", "make_4month_quarters_05"} =>
                      call.ret = <<label>>
                /\ call.fn = "_quarter_sort_key" =>
                      call.arg = label /\ call.ret = <<y, n>>

\* the label of 28 December 2024 has been built and parsed back
C5_Witness ==
    /\ processed.csv.rows[1].Date = Timestamp(2024, 12, 28)
    /\ call.fn = "_quarter_sort_key"
    /\ call.arg = <<"2", "0", "2", "4", "_", "Q", "3">>
    /\ call.ret = <<2024, 3>>

-----------------------------------------------------------------------------
(* Calls of safe_mode on one column (SpecMode) *)

ModeValues == {[nan |-> FALSE, v |-> 10], [nan |-> FALSE, v |-> 20],
               [nan |-> FALSE, v |-> 30], NaN}

SafeMode03 ==
    /\ call.fn = ""
    /\ call' = [call EXCEPT !.fn = "safe_mode_03", !.ret = safe_mode(call.arg)]
    /\ UNCHANGED <<raw, processed, outputs, run>>

SafeMode04 ==
    /\ call.fn = ""
    /\ call' = [call EXCEPT !.fn = "safe_mode_04", !.ret = safe_mode_04(call.arg)]
    /\ UNCHANGED <<raw, processed, outputs, run>>

InitMode ==
    /\ raw = [c \in CompanySet |-> NoFile]
    /\ processed = NoProcessed
    /\ outputs = {}
    /\ run = NoRun
    /\ \E s \in SeqsUpTo(ModeValues, MaxLen) : call = [fn |-> "", arg |-> s, ret |-> NaN]

NextMode == SafeMode03 \/ SafeMode04

SpecMode == InitMode /\ [][NextMode]_vars

\* how often a value occurs in the column
Occurrences(s, v) == Cardinality({i \in 1..Len(s) : s[i] = [nan |-> FALSE, v |-> v]})

\* C7 (as stated): the Mode of a non-empty column is the smallest of its most frequent
\* values when some value occurs more than once, and NaN when all its values
\* are pairwise distinct.
C7_ModeUndefinedWithoutRepeat ==
    (/\ call.fn \in {"safe_mode_03", "safe_mode_04"}
     /\ call.arg # <<>>
     /\ NaN \notin Range(call.arg)) =>
        LET s == call.arg
            vals == {s[i].v : i \in 1..Len(s)}
            most == {v \in vals : \A w \in vals : Occurrences(s, w) <= Occurrences(s, v)}
        IN  IF \E v \in vals : Occurrences(s, v) > 1
            THEN /\ ~call.ret.nan
                 /\ call.ret.v \in most
                 /\ \A v \in most : call.ret.v <= v
            ELSE call.ret = NaN


\* C7 (as amended): the Mode of a column with at least one value is the
\* smallest of its most frequent values, missing values left out; when all
\* values are pairwise distinct every value is most frequent and the Mode is
\* the smallest value of the column; it is NaN only for a column without
\* values.
C7_ModeIsSmallestMostFrequent ==
    call.fn \in {"safe_mode_03", "safe_mode_04"} =>
        LET s == call.arg
            vals == {s[i].v : i \in {j \in 1..Len(s) : s[j] # NaN}}
            most == {v \in vals : \A w \in vals : Occurrences(s, w) <= Occurrences(s, v)}
        IN  IF vals = {} THEN call.ret = NaN
            ELSE /\ ~call.ret.nan
                 /\ call.ret.v \in most
                 /\ \A v \in most : call.ret.v <= v
                 /\ (\A v \in vals : Occurrences(s, v) = 1) =>
                       \A v \in vals : call.ret.v <= v

\* the 04 copy has returned 10 for the column 30, 10, 20
C7_Witness ==
    /\ call.fn = "safe_mode_04"
    /\ call.arg = <<[nan |-> FALSE, v |-> 30], [nan |-> FALSE, v |-> 10],
                    [nan |-> FALSE, v |-> 20]>>
    /\ call.ret = [nan |-> FALSE, v |-> 10]

-----------------------------------------------------------------------------
(* The pivots of the table that 04 writes (SpecPivot) *)

\* one date per quarter of the window, one more in the first quarter, and the
\* day after the window, each with its year and bucket number
PivotDates ==
    <<[t |-> Timestamp(2023, 1, 3), y |-> 2023, n |-> 1],
      [t |-> Timestamp(2023, 4, 28), y |-> 2023, n |-> 1],
      [t |-> Timestamp(2023, 8, 31), y |-> 2023, n |-> 2],
      [t |-> Timestamp(2023, 9, 1), y |-> 2023, n |-> 3],
      [t |-> Timestamp(2024, 1, 1), y |-> 2024, n |-> 1],
      [t |-> Timestamp(2024, 6, 28), y |-> 2024, n |-> 2],
      [t |-> Timestamp(2024, 6, 29), y |-> 2024, n |-> 2]>>

\* balanced tables: distinct company columns in any order, ascending dates
PivotTables ==
    {[exists |-> TRUE,
      cols |-> cols,
      rows |-> [k \in 1..Cardinality(D) |->
                  LET i == SortSet(D, LAMBDA a, b : a < b)[k]
                  IN  [Date |-> PivotDates[i].t,
                       vals |-> [c \in Range(cols) |->
                                   100 + 10 * Len(SelectSeq(CompanyNames,
                                                    LAMBDA x : NameLess(x, c))) + i]]]] :
        cols \in {h \in SeqsUpTo(Range(CompanyNames), MaxCompanies) :
                    Len(h) >= 1 /\ \A i, j \in 1..Len(h) : i # j => h[i] # h[j]},
        D \in {{1, 3, 6}, {2, 5}, {1, 2, 4, 5}, {6, 7}, {3, 4, 5, 6}, {7}}}

Quarterly04 ==
    /\ call.fn = ""
    /\ processed.csv.exists
    /\ call' = [fn |-> "04_main", arg |-> processed.csv,
                ret |-> quarterly_table(processed.csv)]
    /\ UNCHANGED <<raw, processed, outputs, run>>

\* 06 reads the workbook that 04 wrote
Pivots06 ==
    /\ call.fn = "04_main"
    /\ call.ret.err = ""
    /\ call' = [fn |-> "06_main", arg |-> call.ret.rows, ret |-> pivots(call.ret.rows)]
    /\ UNCHANGED <<raw, processed, outputs, run>>

InitPivot ==
    /\ raw = [c \in CompanySet |-> NoFile]
    /\ \E table \in PivotTables : processed = [NoProcessed EXCEPT !.csv = table]
    /\ outputs = {}
    /\ run = NoRun
    /\ call = NoCall

NextPivot == Quarterly04 \/ Pivots06

SpecPivot == InitPivot /\ [][NextPivot]_vars

\* the label YYYY_Qn of a year and a bucket number
LabelOf(y, n) ==
    <<Digits[(y \div 1000) + 1], Digits[((y \div 100) % 10) + 1],
      Digits[((y \div 10) % 10) + 1], Digits[(y % 10) + 1], "_", "Q", Digits[n + 1]>>

\* the (year, bucket) pairs of the quarterly table, by its labels
BucketsOf(rows) ==
    {<<PivotDates[i].y, PivotDates[i].n>> : i \in {j \in 1..Len(PivotDates) :
        \E k \in 1..Len(rows) : rows[k].Quarter = LabelOf(PivotDates[j].y, PivotDates[j].n)}}

\* the position of the first row of a company in the quarterly table
FirstRow(rows, c) ==
    CHOOSE i \in 1..Len(rows) :
        rows[i].Company = c /\ \A j \in 1..i - 1 : rows[j].Company # c

\* C11: in both pivots the rows are the buckets of the quarterly table, each
\* once, ascending by (year, bucket number); the columns are the companies of
\* the table, each once: those of COMPANY_ORDER first, in that order, then
\* the others in the order of their first row in the quarterly table.
C11_PivotOrder ==
    call.fn = "06_main" =>
        /\ call.ret.err = ""
        /\ \A P \in {call.ret.mean_pivot, call.ret.sd_pivot} :
              LET rows == call.arg
                  companies == {rows[i].Company : i \in 1..Len(rows)}
                  buckets == BucketsOf(rows)
                  pos(c) == CHOOSE i \in 1..Len(P.columns) : P.columns[i] = c
                  rank(c) == CHOOSE i \in 1..Len(COMPANY_ORDER) : COMPANY_ORDER[i] = c
              IN  /\ Len(P.index) = Cardinality(buckets)
                  /\ \A i \in 1..Len(P.index) : \E b \in buckets :
                        /\ P.index[i] = LabelOf(b[1], b[2])
                        /\ Cardinality({a \in buckets :
                               a[1] < b[1] \/ (a[1] = b[1] /\ a[2] < b[2])}) = i - 1
                  /\ Len(P.columns) = Cardinality(companies)
                  /\ Range(P.columns) = companies
                  /\ \A c, d \in companies :
                        pos(c) < pos(d) <=>
                            \/ c \in Range(COMPANY_ORDER) /\ d \notin Range(COMPANY_ORDER)
                            \/ /\ c \in Range(COMPANY_ORDER) /\ d \in Range(COMPANY_ORDER)
                               /\ rank(c) < rank(d)
                            \/ /\ c \notin Range(COMPANY_ORDER) /\ d \notin Range(COMPANY_ORDER)
                               /\ FirstRow(rows, c) < FirstRow(rows, d)

\* the pivots of a table with columns Zensar, Accenture, TCS over four buckets
\* of two years
C11_Witness ==
    /\ call.fn = "06_main"
    /\ processed.csv.cols = <<"Zensar", "Accenture", "TCS">>
    /\ call.ret.mean_pivot.columns = <<"TCS", "Accenture", "Zensar">>
    /\ call.ret.sd_pivot.index =
          <<LabelOf(2023, 2), LabelOf(2023, 3), LabelOf(2024, 1), LabelOf(2024, 2)>>

=============================================================================
